---- MODULE Spec2Model ----
(***************************************************************************)
(* Model of the star-system simulation: System (galaxy_system.py) owning   *)
(* one Star and a list of Planets (interactive_objects.py).                *)
(*                                                                         *)
(* Numbers.  The program computes in Python floats; here every float is an *)
(* exact rational <<n, d>> with d > 0 in lowest terms, and every pygame    *)
(* Rect field is an integer, as in pygame.  Float rounding error is thus   *)
(* absent from the model; integer truncation and rounding (int(), round(), *)
(* Rect's float-to-int conversion, C integer division in rect.center) are  *)
(* modelled as the code performs them.                                     *)
(*                                                                         *)
(* Units.  Lengths are in units of 1e8 m, so that 1 AU = 149.6e9 m is 1496 *)
(* and the solar and earth radii keep their values.  Angles are in quarter *)
(* turns, so that math.pi is 2 and cos/sin are exact on the integers.      *)
(* Time is in hours (one day is 24).  Masses and G are in units that make  *)
(* Kepler's cube root exact for the catalog values drawn below.            *)
(***************************************************************************)
EXTENDS Integers, Naturals, Sequences, FiniteSets, TLC

VARIABLES catalog, phase, host_star, planets, outcome, calls, steps

vars == <<catalog, phase, host_star, planets, outcome, calls, steps>>

----------------------------------------------------------------------------
(* Exact rational arithmetic standing in for Python float arithmetic.      *)

Abs(a) == IF a < 0 THEN -a ELSE a

RECURSIVE Gcd(_, _)
Gcd(a, b) == IF b = 0 THEN a ELSE Gcd(b, a % b)

\* the rational n/d (d # 0) in lowest terms with a positive denominator
Q(n, d) ==
    LET g == Gcd(Abs(n), Abs(d))
        s == IF d < 0 THEN -1 ELSE 1
    IN  <<s * (n \div g), s * (d \div g)>>

I(n) == <<n, 1>>

Zero == I(0)

\* a * b, cancelling across before multiplying
RMul(a, b) ==
    LET g1 == Gcd(Abs(a[1]), b[2])
        g2 == Gcd(Abs(b[1]), a[2])
    IN  Q((a[1] \div g1) * (b[1] \div g2), (a[2] \div g2) * (b[2] \div g1))

\* a / b, for b # 0 (Python raises ZeroDivisionError otherwise: see callers)
RDiv(a, b) == RMul(a, Q(b[2], b[1]))

RAdd(a, b) == Q(a[1] * b[2] + b[1] * a[2], a[2] * b[2])

RSub(a, b) == RAdd(a, <<-b[1], b[2]>>)

RLess(a, b) == a[1] * b[2] < b[1] * a[2]

Floor(a) == a[1] \div a[2]

\* Python int(float): truncation toward zero
PyInt(a) == IF a[1] >= 0 THEN a[1] \div a[2] ELSE -((-a[1]) \div a[2])

\* Python round(float): nearest integer, ties to the even one
PyRound(a) ==
    LET f == Floor(a)
        twice == 2 * (a[1] - f * a[2])   \* 2 * fractional part * a[2]
    IN  IF twice < a[2] THEN f
        ELSE IF twice > a[2] THEN f + 1
        ELSE IF f % 2 = 0 THEN f ELSE f + 1

\* C integer division, as in pygame's rect.center: truncation toward zero
CDiv(a, b) == IF a >= 0 THEN a \div b ELSE -((-a) \div b)

\* the exact cube root of a rational that is a perfect cube
MaxRoot == 100

ICbrt(n) == CHOOSE c \in 0..MaxRoot : c * c * c = n

Cbrt(a) == Q(ICbrt(a[1]), ICbrt(a[2]))

----------------------------------------------------------------------------
(* Program constants.                                                      *)

\* interactive_objects.py:6, pixels per AU
SCALE == 50000

\* interactive_objects.py:35, 1 AU = 149.6e9 m, in units of 1e8 m
AU_METERS == 1496

\* interactive_objects.py:184 and :406, the gravitational constant, in the
\* model's units of mass, time and angle
G == 6

\* math.pi, a half turn
PI == 2

\* interactive_objects.py:287, one solar mass, in the model's unit of mass
SOLAR_MASS == 8

\* interactive_objects.py:288, one solar radius = 6.957e8 m, in units of 1e8 m
SOLAR_RADIUS == Q(6957, 1000)

\* interactive_objects.py:399, one day = 24*60*60 s, in hours
DAY == 24

\* interactive_objects.py:399, one earth radius = 6.371e6 m, in units of 1e8 m
EARTH_RADIUS == Q(6371, 100000)

\* interactive_objects.py:399, one earth mass, in the model's unit of mass
EARTH_MASS == 3

\* part_000:11, the centre of the WIDTH x HEIGHT surface
SURFACE_CENTER == <<640, 360>>

----------------------------------------------------------------------------
(* pygame.Rect: integer x, y (top left), w, h.                             *)

\* Rect(topleft, (w, h)): float sizes are truncated to integers
Rect(topleft, wf, hf) ==
    [x |-> topleft[1], y |-> topleft[2], w |-> PyInt(wf), h |-> PyInt(hf)]

\* rect.center (getter)
Center(rect) == <<rect.x + CDiv(rect.w, 2), rect.y + CDiv(rect.h, 2)>>

\* rect.center = c (setter): moves the rectangle, keeps its size
SetCenter(rect, c) ==
    [rect EXCEPT !.x = c[1] - CDiv(rect.w, 2), !.y = c[2] - CDiv(rect.h, 2)]

\* rect.w, rect.h = w, h: resizes the rectangle, keeps its top left corner
SetSize(rect, w, h) == [rect EXCEPT !.w = w, !.h = h]

----------------------------------------------------------------------------
(* InteractableObject and PolarObject.                                     *)

\* pixels = meters*self.scale/149.6e9
meter_to_cart(scale, meters) == RDiv(RMul(meters, scale), I(AU_METERS))

\* tuple(int(a + b) for a, b in zip(iter_1, iter_2))
add(xy, pole) ==
    <<PyInt(RAdd(xy[1], I(pole[1]))), PyInt(RAdd(xy[2], I(pole[2])))>>

\* tuple(int(a - b) for a, b in zip(iter_1, iter_2)), on integer points
sub(xy, pole) == <<xy[1] - pole[1], xy[2] - pole[2]>>

\* math.cos and math.sin of an angle that is a whole number of quarter turns
Cos(theta) ==
    LET k == theta[1] % 4
    IN  IF k = 0 THEN I(1) ELSE IF k = 2 THEN I(-1) ELSE Zero

Sin(theta) ==
    LET k == theta[1] % 4
    IN  IF k = 1 THEN I(1) ELSE IF k = 3 THEN I(-1) ELSE Zero

polar_to_cartesian(pole, r, theta) ==
    add(<<RMul(r, Cos(theta)), RMul(r, Sin(theta))>>, pole)

\* cartesian_to_polar at the pole itself, the one case whose result is kept:
\* a Star is constructed on its pole; a Planet's result is overwritten
cartesian_to_polar(pole, x, y) ==
    LET rel == sub(<<x, y>>, pole)
    IN  CASE rel[1] = 0 /\ rel[2] = 0 -> <<Zero, Zero>>

\* InteractableObject.__init__: the rect of a w x h object centred on (x, y)
InitRect(x, y, wf, hf) ==
    Rect(<<PyRound(RSub(I(x), RMul(wf, Q(1, 2)))),
           PyRound(RSub(I(y), RMul(hf, Q(1, 2))))>>, wf, hf)

----------------------------------------------------------------------------
(* MassObject, Star and Planet.                                            *)

\* Star.convert_stellar_to_si(st_mass, st_rad)
convert_stellar_to_si(st_mass, st_rad) ==
    [mass |-> RMul(I(SOLAR_MASS), st_mass), radius |-> RMul(SOLAR_RADIUS, st_rad)]

\* Planet.convert_earth_to_si(pl_orbper, pl_mass, pl_rad), returning mass, T, radius
convert_earth_to_si(pl_orbper, pl_mass, pl_rad) ==
    [T      |-> RMul(pl_orbper, I(DAY)),
     radius |-> RMul(pl_rad, EARTH_RADIUS),
     mass   |-> RMul(pl_mass, I(EARTH_MASS))]

\* MassObject.convert_by_type, Planet branch: the pl_ attributes in the
\* alphabetical order of dir(), passed positionally
convert_by_type_planet(dict) ==
    LET pl_masse  == I(dict.pl_masse)
        pl_orbper == I(dict.pl_orbper)
        pl_rade   == I(dict.pl_rade)
    IN  convert_earth_to_si(pl_masse, pl_orbper, pl_rade)

\* MassObject.convert_by_type, Star branch
convert_by_type_star(dict) ==
    convert_stellar_to_si(I(dict.st_mass), I(dict.st_rad))

\* Planet.get_radial_distance_from(star): r = ((G m T^2)/(4 pi^2))^(1/3)
get_radial_distance_from(star_mass, T) ==
    LET numerator   == RMul(RMul(I(G), star_mass), RMul(T, T))
        denominator == I(4 * PI * PI)
    IN  Cbrt(RDiv(numerator, denominator))

\* Planet.get_angular_velocity(r, T) = (2 pi r)/T, for T # 0
get_angular_velocity(r, T) == RDiv(RMul(I(2 * PI), r), T)

\* Star.__init__(surface, x, y, star_dictionary)
Star(x, y, dict) ==
    LET si          == convert_by_type_star(dict)
        pole        == <<x, y>>
        rect_radius == meter_to_cart(I(SCALE), si.radius)
        polar       == cartesian_to_polar(pole, x, y)
    IN  [pole   |-> pole,
         r      |-> polar[1],
         theta  |-> polar[2],
         rect   |-> InitRect(x, y, RMul(rect_radius, I(2)), RMul(rect_radius, I(2))),
         scale  |-> I(SCALE),
         mass   |-> si.mass,
         radius |-> si.radius,
         dict   |-> dict]

\* Planet.__init__ raises ZeroDivisionError in get_angular_velocity when T = 0
PlanetRaises(dict) == convert_by_type_planet(dict).T = Zero

\* a Planet taking the point (x, y) = (0, 0) it is constructed at as its pole
PlanetPoleOrigin(star) == <<0, 0>>

\* the pole a Planet takes: its host star's
PlanetPole(star) == star.pole

\* Planet.__init__(surface, host_star, planet_dictionary), for T # 0;
\* theta0 is the value random.uniform(0, 2*math.pi) returns
Planet(star, dict, theta0) ==
    LET si          == convert_by_type_planet(dict)
        pole        == PlanetPole(star)
        rect_radius == meter_to_cart(I(SCALE), si.radius)
        rect0       == InitRect(0, 0, RMul(rect_radius, I(2)), RMul(rect_radius, I(2)))
        r           == meter_to_cart(I(SCALE), get_radial_distance_from(star.mass, si.T))
    IN  [pole   |-> pole,
         r      |-> r,
         theta  |-> theta0,
         rect   |-> SetCenter(rect0, polar_to_cartesian(pole, r, theta0)),
         scale  |-> I(SCALE),
         mass   |-> si.mass,
         radius |-> si.radius,
         T      |-> si.T,
         vw     |-> get_angular_velocity(get_radial_distance_from(star.mass, si.T), si.T),
         dict   |-> dict]

\* update_scale sizing the rect from the scale the body had before the call
update_scale_stale_size(body, new_scale, is_star) ==
    LET ratio       == RDiv(new_scale, body.scale)
        rect_radius == meter_to_cart(body.scale, body.radius)
        w           == PyRound(RMul(rect_radius, I(2)))
        sized       == SetSize(body.rect, w, w)
    IN  [body EXCEPT !.scale = new_scale,
                     !.rect  = IF is_star THEN SetCenter(sized, body.pole) ELSE sized,
                     !.r     = RMul(body.r, ratio)]

\* update_scale leaving r as it was
update_scale_keeps_r(body, new_scale, is_star) ==
    LET rect_radius == meter_to_cart(new_scale, body.radius)
        w           == PyRound(RMul(rect_radius, I(2)))
        sized       == SetSize(body.rect, w, w)
    IN  [body EXCEPT !.scale = new_scale,
                     !.rect  = IF is_star THEN SetCenter(sized, body.pole) ELSE sized]

\* MassObject.update_scale(new_scale) on a body whose scale is not 0 (the
\* division new_scale/self.scale raises ZeroDivisionError otherwise)
update_scale(body, new_scale, is_star) ==
    LET ratio       == RDiv(new_scale, body.scale)
        rect_radius == meter_to_cart(new_scale, body.radius)
        w           == PyRound(RMul(rect_radius, I(2)))
        sized       == SetSize(body.rect, w, w)
    IN  [body EXCEPT !.scale = new_scale,
                     !.rect  = IF is_star THEN SetCenter(sized, body.pole) ELSE sized,
                     !.r     = RMul(body.r, ratio)]

\* update_scale raises before it changes anything
RaisesEarly(body) == body.scale = Zero

\* self.mask.scale((w, h)), the last statement of update_scale, raises
\* ValueError on a negative size, after the body has been changed
RaisesLate(body, new_scale) ==
    PyRound(RMul(meter_to_cart(new_scale, body.radius), I(2))) < 0

\* the body as update_scale leaves it, raising or not
AfterUpdateScale(body, new_scale, is_star) ==
    IF RaisesEarly(body) THEN body ELSE update_scale(body, new_scale, is_star)

UpdateScaleRaises(body, new_scale) ==
    RaisesEarly(body) \/ RaisesLate(body, new_scale)

\* Planet.move(dt) raises ZeroDivisionError when the radial distance is 0
MoveRaises(star, planet) == get_radial_distance_from(star.mass, planet.T) = Zero

\* move storing the pixel speed w_px it computes in vw
move_stores_w_px(star, planet, dt) ==
    LET theta == RAdd(planet.theta,
                      RDiv(RMul(planet.vw, dt),
                           get_radial_distance_from(star.mass, planet.T)))
    IN  [planet EXCEPT !.theta = theta,
                       !.vw    = meter_to_cart(planet.scale, planet.vw),
                       !.rect  = SetCenter(planet.rect,
                                           polar_to_cartesian(planet.pole, planet.r, theta))]

\* move dividing by the polar radius r in pixels
move_divides_by_r(star, planet, dt) ==
    LET theta == RAdd(planet.theta, RDiv(RMul(planet.vw, dt), planet.r))
    IN  [planet EXCEPT !.theta = theta,
                       !.rect  = SetCenter(planet.rect,
                                           polar_to_cartesian(planet.pole, planet.r, theta))]

\* Planet.move(dt), for a radial distance that is not 0
move(star, planet, dt) ==
    LET theta == RAdd(planet.theta,
                      RDiv(RMul(planet.vw, dt),
                           get_radial_distance_from(star.mass, planet.T)))
    IN  [planet EXCEPT !.theta = theta,
                       !.rect  = SetCenter(planet.rect,
                                           polar_to_cartesian(planet.pole, planet.r, theta))]

----------------------------------------------------------------------------
(* Inputs.                                                                 *)

MaxPlanets == 2
MaxSteps == 2

\* star rows of the catalog: st_mass in solar masses, st_rad in solar radii
StarDicts ==
    {[st_mass |-> 1, st_rad |-> 1],
     [st_mass |-> 8, st_rad |-> 2],
     [st_mass |-> 0, st_rad |-> 1]}

\* planet rows: pl_orbper in days, pl_masse in earth masses, pl_rade in earth radii
PlanetDicts ==
    {[pl_orbper |-> 1, pl_masse |-> 1, pl_rade |-> 1],
     [pl_orbper |-> 2, pl_masse |-> 8, pl_rade |-> 2],
     [pl_orbper |-> 1, pl_masse |-> 0, pl_rade |-> 1],
     [pl_orbper |-> 0, pl_masse |-> 1, pl_rade |-> 2]}

\* values of random.uniform(0, 2*math.pi), in quarter turns
Thetas == {I(0), I(3)}

\* arguments of System.change_scale
Percents == {I(1), Q(-1, 2), I(-1), I(-2)}

\* arguments of System.update, in hours
Dts == {I(48), I(96)}

PlanetLists == UNION {[1..n -> PlanetDicts] : n \in 1..MaxPlanets}

NoStar == [none |-> TRUE]

----------------------------------------------------------------------------
(* System.                                                                 *)

Init ==
    /\ catalog \in [star : StarDicts, planets : PlanetLists]
    /\ phase = "new"
    /\ host_star = NoStar
    /\ planets = <<>>
    /\ outcome = "none"
    /\ calls = <<>>
    /\ steps = 0

\* the index of the first TRUE in a sequence of flags, or its length + 1:
\* where a loop over the planets is left by an exception
FirstRaising(raises) ==
    IF \E i \in 1..Len(raises) : raises[i]
    THEN CHOOSE i \in 1..Len(raises) : raises[i] /\ \A j \in 1..(i-1) : ~raises[j]
    ELSE Len(raises) + 1

\* System.__init__ -> init_bodies(host_star_dict, list_of_planet_dicts)
InitBodies ==
    /\ phase = "new"
    /\ \E thetas \in [1..Len(catalog.planets) -> Thetas] :
         LET star  == Star(SURFACE_CENTER[1], SURFACE_CENTER[2], catalog.star)
             dicts == catalog.planets
             k     == FirstRaising([i \in 1..Len(dicts) |-> PlanetRaises(dicts[i])])
         IN  /\ host_star' = star
             /\ planets' = [i \in 1..(k-1) |-> Planet(star, dicts[i], thetas[i])]
             /\ phase' = IF k <= Len(dicts) THEN "failed" ELSE "running"
             /\ outcome' = IF k <= Len(dicts) THEN "error" ELSE "ok"
    /\ UNCHANGED <<catalog, calls, steps>>

\* the record of a call, with the bodies as they were before it
Call(op, arg) == [op |-> op, arg |-> arg, star |-> host_star, planets |-> planets]

Record(call) == IF Len(calls) < 2 THEN Append(calls, call) ELSE <<calls[2], call>>

\* System.update(dt)
Update(dt) ==
    /\ phase = "running"
    /\ steps < MaxSteps
    /\ LET k == FirstRaising([i \in 1..Len(planets) |->
                                 MoveRaises(host_star, planets[i])])
       IN  /\ planets' = [i \in 1..Len(planets) |->
                            IF i < k THEN move(host_star, planets[i], dt) ELSE planets[i]]
           /\ outcome' = IF k <= Len(planets) THEN "error" ELSE "ok"
    /\ calls' = Record(Call("update", dt))
    /\ steps' = steps + 1
    /\ UNCHANGED <<catalog, phase, host_star>>

\* new_scale = self.host_star.scale*(1+percent)
NewScale(star, percent) == RMul(star.scale, RAdd(I(1), percent))

\* System.change_scale(percent)
ChangeScale(percent) ==
    /\ phase = "running"
    /\ steps < MaxSteps
    /\ LET new_scale == NewScale(host_star, percent)
           star_raises == UpdateScaleRaises(host_star, new_scale)
           k == IF star_raises THEN 0
                ELSE FirstRaising([i \in 1..Len(planets) |->
                                     UpdateScaleRaises(planets[i], new_scale)])
       IN  /\ host_star' = AfterUpdateScale(host_star, new_scale, TRUE)
           /\ planets' = [i \in 1..Len(planets) |->
                            IF i <= k THEN AfterUpdateScale(planets[i], new_scale, FALSE)
                            ELSE planets[i]]
           /\ outcome' = IF k <= Len(planets) THEN "error" ELSE "ok"
    /\ calls' = Record(Call("change_scale", percent))
    /\ steps' = steps + 1
    /\ UNCHANGED <<catalog, phase>>

Next ==
    \/ InitBodies
    \/ \E dt \in Dts : Update(dt)
    \/ \E percent \in Percents : ChangeScale(percent)

Spec == Init /\ [][Next]_vars

----------------------------------------------------------------------------
(* The main loop: Game.run, one action per iteration.                      *)

WIDTH == 1280

HEIGHT == 720

\* the steps clock.tick(FPS) / 1000 the loop may see, 0 included
FrameDts == {Zero} \cup Dts

\* surface.subsurface(rect) raises ValueError for a rect outside the surface
SubsurfaceRaises(rect) ==
    \/ rect.x < 0 \/ rect.y < 0
    \/ rect.x + rect.w > WIDTH \/ rect.y + rect.h > HEIGHT

\* get_orthog_norm: normalize() raises ValueError for a vector of length 0
OrthogNormRaises(star, planet) == Center(planet.rect) = Center(star.rect)

\* System.draw() raises: the drawing code assigns no field of any body
DrawRaises ==
    \/ SubsurfaceRaises(host_star.rect)
    \/ \E i \in 1..Len(planets) : OrthogNormRaises(host_star, planets[i])

\* one iteration of Game.run with no quit event: clock.tick, events (prints
\* only), Game.update (sets the window caption only), Game.draw -> System.draw.
\* The call records the step and the bodies handed to the drawing.
Frame(dt) ==
    /\ phase = "running"
    /\ steps < MaxSteps
    /\ calls' = Record(Call("frame", dt))
    /\ phase' = IF DrawRaises THEN "failed" ELSE "running"
    /\ outcome' = IF DrawRaises THEN "error" ELSE "ok"
    /\ steps' = steps + 1
    /\ UNCHANGED <<catalog, host_star, planets>>

\* an iteration whose events hold QUIT or K_ESCAPE: pg.quit(); sys.exit()
Quit ==
    /\ phase = "running"
    /\ phase' = "quit"
    /\ UNCHANGED <<catalog, host_star, planets, outcome, calls, steps>>

\* g = Game(); g.new(); g.run()
GameNext ==
    \/ InitBodies
    \/ \E dt \in FrameDts : Frame(dt)
    \/ Quit

GameSpec == Init /\ [][GameNext]_vars

----------------------------------------------------------------------------
(* Properties.                                                             *)

Running == phase = "running"

Bodies == {host_star} \cup {planets[i] : i \in 1..Len(planets)}

LastCall == calls[Len(calls)]

\* the last call was change_scale / update
AfterChangeScale == Running /\ calls # <<>> /\ LastCall.op = "change_scale"

AfterUpdate == Running /\ calls # <<>> /\ LastCall.op = "update"

\* the scale the last change_scale call computed
LastNewScale == NewScale(LastCall.star, LastCall.arg)

\* the catalog holds positive masses, radii and periods only
ValidCatalog ==
    /\ catalog.star.st_mass > 0 /\ catalog.star.st_rad > 0
    /\ \A i \in 1..Len(catalog.planets) :
         /\ catalog.planets[i].pl_orbper > 0
         /\ catalog.planets[i].pl_masse > 0
         /\ catalog.planets[i].pl_rade > 0

\* every body of the given star and planets holds the same, positive scale
Consistent(star, ps) ==
    /\ RLess(Zero, star.scale)
    /\ \A i \in 1..Len(ps) : ps[i].scale = star.scale

\* C1: after construction, every rescale and every tick, each planet's
\* rect.center is polar_to_cartesian(pole, r, theta) of its current r, theta.
\* Stated for a valid catalog, positive scales and a call that returned.
C1_CenterFollowsPolar ==
    (Running /\ ValidCatalog /\ Consistent(host_star, planets) /\ outcome = "ok") =>
        \A i \in 1..Len(planets) :
            Center(planets[i].rect)
              = polar_to_cartesian(planets[i].pole, planets[i].r, planets[i].theta)

\* C2: immediately after a change_scale that returned, every body's rect.w
\* and rect.h equal round(2 * meter_to_cart(radius)) at the body's stored scale.
C2_DisplayRadiusAfterRescale ==
    (AfterChangeScale /\ outcome = "ok") =>
        \A b \in Bodies :
            /\ b.rect.w = PyRound(RMul(I(2), meter_to_cart(b.scale, b.radius)))
            /\ b.rect.h = b.rect.w

C2_Witness ==
    /\ AfterChangeScale /\ outcome = "ok"
    /\ LastCall.arg = I(1)
    /\ \E i \in 1..Len(planets) :
         /\ planets[i].rect.w > LastCall.planets[i].rect.w
         /\ LastCall.planets[i].rect.w > 0

\* C3: a change_scale that returned multiplied every planet's r by
\* new_scale/old_scale (doubling it when new_scale = 2*old_scale); the star's
\* r stays 0.
C3_RescaleMultipliesR ==
    (AfterChangeScale /\ outcome = "ok") =>
        /\ host_star.r = Zero
        /\ \A i \in 1..Len(planets) :
             LET old == LastCall.planets[i]
             IN  /\ planets[i].r = RMul(old.r, RDiv(LastNewScale, old.scale))
                 /\ LastNewScale = RMul(I(2), old.scale)
                      => planets[i].r = RAdd(old.r, old.r)

C3_Witness ==
    /\ AfterChangeScale /\ outcome = "ok"
    /\ LastCall.arg = I(1)
    /\ \E i \in 1..Len(planets) :
         /\ LastCall.planets[i].r # Zero
         /\ planets[i].r = RMul(I(2), LastCall.planets[i].r)

\* C4: change_scale sets every body's scale to old_scale * (1 + percent), and
\* in every state the caller can observe all bodies hold the same scale.
\* Stated for a valid catalog.
C4_UniformScale ==
    (Running /\ ValidCatalog) =>
        /\ \A b \in Bodies : b.scale = host_star.scale
        /\ AfterChangeScale => host_star.scale = LastNewScale

\* the last two calls were change_scale by a ratio k > 0 and then by 1/k,
\* on a valid catalog and from bodies that all held the same positive scale
RoundTrip ==
    /\ Running /\ Len(calls) = 2
    /\ ValidCatalog /\ Consistent(calls[1].star, calls[1].planets)
    /\ calls[1].op = "change_scale" /\ calls[2].op = "change_scale"
    /\ RLess(Zero, RAdd(I(1), calls[1].arg))
    /\ RMul(RAdd(I(1), calls[1].arg), RAdd(I(1), calls[2].arg)) = I(1)

\* C5: rescaling by k > 0 and then by 1/k returns every body's display
\* radius and every planet's r to the values before the first rescale.
C5_RoundTrip ==
    RoundTrip =>
        /\ host_star.rect.w = calls[1].star.rect.w
        /\ \A i \in 1..Len(planets) :
             /\ planets[i].rect.w = calls[1].planets[i].rect.w
             /\ planets[i].r = calls[1].planets[i].r

\* C6: after any sequence of rescales and ticks the star's rect.center is
\* its pole, the position it was constructed at.
\* Stated for a valid catalog.
C6_StarStaysOnPole ==
    (Running /\ ValidCatalog) =>
        /\ Center(host_star.rect) = host_star.pole
        /\ host_star.pole = SURFACE_CENTER

\* C7: every planet's pole is its host star's pole, after construction and
\* after every rescale and tick.
C7_SharedPole ==
    phase # "new" => \A i \in 1..Len(planets) : planets[i].pole = host_star.pole

C7_Witness ==
    /\ AfterChangeScale /\ outcome = "ok"
    /\ Len(planets) = MaxPlanets
    /\ \A i \in 1..Len(planets) : planets[i].pole = SURFACE_CENTER
    /\ host_star.scale # I(SCALE)

\* C8: a change_scale on a positive scale whose resulting scale is zero or
\* negative ends in an error and leaves every body as it was.
\* Stated for a valid catalog and bodies that all held the same scale.
C8_NonPositiveScaleRejected ==
    (/\ AfterChangeScale
     /\ ValidCatalog /\ Consistent(LastCall.star, LastCall.planets)
     /\ ~RLess(Zero, LastNewScale))
    => /\ outcome = "error"
       /\ host_star = LastCall.star
       /\ planets = LastCall.planets

\* C9: no planet of a star of mass 0, or with orbital period 0, is ever in
\* the System's planet list; every planet there has an orbital radius # 0.
C9_NoDegenerateOrbit ==
    \A i \in 1..Len(planets) :
        /\ host_star.mass # Zero
        /\ planets[i].dict.pl_orbper # 0
        /\ get_radial_distance_from(host_star.mass, planets[i].T) # Zero

\* C10: each planet has T = 86400 s * pl_orbper, radius = one earth radius *
\* pl_rade and mass = one earth mass * pl_masse.
\* Stated for a valid catalog.
C10_EarthUnitsToSI ==
    ValidCatalog => \A i \in 1..Len(planets) :
        LET p == planets[i]
        IN  /\ p.T = RMul(I(DAY), I(p.dict.pl_orbper))
            /\ p.radius = RMul(EARTH_RADIUS, I(p.dict.pl_rade))
            /\ p.mass = RMul(I(EARTH_MASS), I(p.dict.pl_masse))

\* the fields of a body that are fixed at construction
Physical(b) == <<b.mass, b.radius, b.pole>>

Orbital(p) == <<p.T, p.vw>>

\* C11: neither a tick nor a rescale changes a body's mass, radius, T, vw or
\* pole; a tick changes no body's scale, r or display size and nothing on
\* the star; a rescale changes no planet's theta.
C11_Frame ==
    (Running /\ calls # <<>>) =>
        /\ Physical(host_star) = Physical(LastCall.star)
        /\ \A i \in 1..Len(planets) :
             LET old == LastCall.planets[i]
                 new == planets[i]
             IN  /\ Physical(new) = Physical(old)
                 /\ Orbital(new) = Orbital(old)
                 /\ LastCall.op = "update" =>
                      /\ new.scale = old.scale /\ new.r = old.r
                      /\ new.rect.w = old.rect.w /\ new.rect.h = old.rect.h
                 /\ LastCall.op = "change_scale" => new.theta = old.theta
        /\ LastCall.op = "update" => host_star = LastCall.star

\* a tick that moved a planet, after a rescale that changed its r
C11_Witness ==
    /\ AfterUpdate /\ outcome = "ok" /\ Len(calls) = 2
    /\ calls[1].op = "change_scale"
    /\ \E i \in 1..Len(planets) :
         /\ planets[i].theta # calls[2].planets[i].theta
         /\ calls[2].planets[i].r # calls[1].planets[i].r
         /\ planets[i].vw # Zero

\* theta + (vw * dt) / radius
Advanced(planet, dt, radius) == RAdd(planet.theta, RDiv(RMul(planet.vw, dt), radius))

\* C12 (as stated): a tick with step dt changes each planet's theta to
\* theta + (vw * dt) / r, r the planet's current polar radius, the one a
\* rescale multiplies by ratio.
C12_StepDividesByPolarR ==
    (AfterUpdate /\ outcome = "ok" /\ ValidCatalog
       /\ Consistent(LastCall.star, LastCall.planets)) =>
        \A i \in 1..Len(planets) :
            planets[i].theta
              = Advanced(LastCall.planets[i], LastCall.arg, LastCall.planets[i].r)

\* C12 (amended): a tick with step dt that returns changes each planet's
\* theta to theta + (vw * dt) / R, R the radial distance in metres that
\* get_radial_distance_from computes from the host star's mass and the
\* planet's T at that tick; no rescale changes R.
C12_StepDividesByRadialDistance ==
    (AfterUpdate /\ outcome = "ok") =>
        \A i \in 1..Len(planets) :
            planets[i].theta
              = Advanced(LastCall.planets[i], LastCall.arg,
                         get_radial_distance_from(LastCall.star.mass,
                                                  LastCall.planets[i].T))

\* a tick after a rescale that doubled r: the step is not the one over r
C12_Witness ==
    /\ AfterUpdate /\ outcome = "ok" /\ ValidCatalog /\ Len(calls) = 2
    /\ Consistent(LastCall.star, LastCall.planets)
    /\ calls[1].op = "change_scale" /\ calls[1].arg = I(1)
    /\ \E i \in 1..Len(planets) :
         /\ calls[2].planets[i].r = RMul(I(2), calls[1].planets[i].r)
         /\ planets[i].theta # calls[2].planets[i].theta
         /\ planets[i].theta
              # Advanced(calls[2].planets[i], calls[2].arg, calls[2].planets[i].r)

\* C13: in every frame of the main loop the angle of every planet is advanced
\* by the frame's step before the bodies are drawn, so a planet's theta at the
\* draw of frame n+1 differs from its theta at the draw of frame n whenever
\* dt > 0. Stated for two consecutive frames of a valid catalog that drew.
C13_FrameAdvancesAngle ==
    (Running /\ ValidCatalog /\ outcome = "ok" /\ Len(calls) = 2
       /\ calls[1].op = "frame" /\ calls[2].op = "frame"
       /\ RLess(Zero, calls[2].arg)) =>
        \A i \in 1..Len(planets) :
            calls[2].planets[i].theta # calls[1].planets[i].theta

====
